---- MODULE Spec2Model ----
(***************************************************************************)
(* The Parameter Engine (src/utils/parameter_parser.py) and the Execution  *)
(* Engine (src/utils/code_executor.py) of the interactive script platform. *)
(*                                                                         *)
(* Text is a sequence of one-character strings, so that the regular        *)
(* expressions, str.split, str.strip, int(), float() and the formatting of *)
(* a new value are modelled by what they do to the characters.  Numbers    *)
(* are fixed-point integers in units of 10^-Places (0.0001 is 1).          *)
(***************************************************************************)
EXTENDS Integers, Sequences, FiniteSets, TLC

(* ------------------------------ bounds -------------------------------- *)

\* The longest script, in lines.
MaxLines == 2

\* The decimal places a number keeps: 0.0001, the smallest number of the
\* program, is one unit.
Places == 4

(* ----------------------------- characters ----------------------------- *)

LowerAlpha == <<"a", "b", "c", "d", "e", "f", "g", "h", "i", "j", "k", "l", "m", "n", "o", "p", "q", "r", "s", "t", "u", "v", "w", "x", "y", "z">>
UpperAlpha == <<"A", "B", "C", "D", "E", "F", "G", "H", "I", "J", "K", "L", "M", "N", "O", "P", "Q", "R", "S", "T", "U", "V", "W", "X", "Y", "Z">>
DigitChars == <<"0", "1", "2", "3", "4", "5", "6", "7", "8", "9">>

IndexOf(c, s) ==
    IF \E i \in 1..Len(s) : s[i] = c
    THEN CHOOSE i \in 1..Len(s) : s[i] = c /\ \A k \in 1..(i - 1) : s[k] # c
    ELSE 0

Range(s) == {s[i] : i \in 1..Len(s)}

LowerSet == Range(LowerAlpha)

UpperSet == Range(UpperAlpha)

DigitSet == Range(DigitChars)

LowerOf == [c \in UpperSet |-> LowerAlpha[IndexOf(c, UpperAlpha)]]

DigitOf == [c \in DigitSet |-> IndexOf(c, DigitChars) - 1]

\* re.IGNORECASE folds the letter case of both the pattern and the text.
Lower(c) == IF c \in UpperSet THEN LowerOf[c] ELSE c

LowerStr(s) == [i \in 1..Len(s) |-> Lower(s[i])]

\* \s of a regular expression, and what str.strip removes.
IsSpace(c) == c \in {" ", "\t"}

\* [0-9]
IsDigit(c) == c \in DigitSet

\* [a-z_] under re.IGNORECASE
IsIdentChar(c) == c = "_" \/ c \in LowerSet \/ c \in UpperSet

NotSpace(c) == ~IsSpace(c)

NotNewline(c) == c # "\n"

\* The character classes of the patterns, by name.
InClass(cls, c) ==
    CASE cls = "space" -> IsSpace(c)
      [] cls = "digit" -> IsDigit(c)
      [] cls = "ident" -> IsIdentChar(c)
      [] cls = "line"  -> NotNewline(c)

\* The first position at or after pos whose character is not of the class
\* (Len(s) + 1 when none is): where a greedy class* that starts at pos stops.
RECURSIVE RunEnd(_, _, _)
RunEnd(cls, s, pos) ==
    IF pos > Len(s) \/ ~InClass(cls, s[pos]) THEN pos ELSE RunEnd(cls, s, pos + 1)

StartsWith(s, w) == Len(w) <= Len(s) /\ SubSeq(s, 1, Len(w)) = w

EndsWith(s, w) ==
    Len(w) <= Len(s) /\ SubSeq(s, Len(s) - Len(w) + 1, Len(s)) = w

\* w in s, for strings
Contains(s, w) ==
    \E i \in 1..(Len(s) - Len(w) + 1) : SubSeq(s, i, i + Len(w) - 1) = w

\* code.split('\n')
RECURSIVE Split(_)
Split(s) ==
    LET j == RunEnd("line", s, 1)
    IN  IF j > Len(s)
        THEN <<s>>
        ELSE <<SubSeq(s, 1, j - 1)>> \o Split(SubSeq(s, j + 1, Len(s)))

\* '\n'.join(lines)
RECURSIVE Join(_)
Join(lines) ==
    IF Len(lines) = 0 THEN <<>>
    ELSE IF Len(lines) = 1 THEN lines[1]
    ELSE lines[1] \o <<"\n">> \o Join(Tail(lines))

\* line.strip()
Strip(line) ==
    LET a == RunEnd("space", line, 1)
    IN  IF a > Len(line) THEN <<>>
        ELSE LET b == CHOOSE j \in a..Len(line) :
                          NotSpace(line[j]) /\ \A k \in (j + 1)..Len(line) : IsSpace(line[k])
             IN  SubSeq(line, a, b)

(* ------------------------------ numbers ------------------------------- *)

\* The fractional digits of the "{:.6f}" that writes a new value.
FracDigits == 6

RECURSIVE Pow10(_)
Pow10(n) == IF n = 0 THEN 1 ELSE 10 * Pow10(n - 1)

\* One unit (1.0) in fixed point.
Scale == Pow10(Places)

Abs(x) == IF x < 0 THEN -x ELSE x

Max(a, b) == IF a >= b THEN a ELSE b

\* int(x) of a number: truncation towards zero.
Trunc(x) == IF x >= 0 THEN (x \div Scale) * Scale ELSE -(((-x) \div Scale) * Scale)

RECURSIVE DigitsValue(_)
DigitsValue(s) ==
    IF Len(s) = 0 THEN 0
    ELSE 10 * DigitsValue(SubSeq(s, 1, Len(s) - 1)) + DigitOf[s[Len(s)]]

\* int(value_str) of a run of digits
ParseInt(value_str) == DigitsValue(value_str) * Scale

\* float(value_str) of digits, an optional point, digits
ParseFloat(value_str) ==
    LET d    == IndexOf(".", value_str)
        ip   == SubSeq(value_str, 1, d - 1)
        fp   == SubSeq(value_str, d + 1, Len(value_str))
        kept == IF Len(fp) > Places THEN SubSeq(fp, 1, Places) ELSE fp
    IN  DigitsValue(ip) * Scale + DigitsValue(kept) * Pow10(Places - Len(kept))

\* str(n) of a natural number
RECURSIVE NatStr(_)
NatStr(n) ==
    IF n < 10 THEN <<DigitChars[n + 1]>>
    ELSE NatStr(n \div 10) \o <<DigitChars[(n % 10) + 1]>>

\* str(int(x)) of a number
IntStr(x) ==
    LET t == Trunc(x) \div Scale
    IN  IF t < 0 THEN <<"-">> \o NatStr(-t) ELSE NatStr(t)

\* s.rstrip(c)
RStrip(s, c) ==
    LET n == CHOOSE j \in 0..Len(s) :
                 (j = 0 \/ s[j] # c) /\ \A k \in (j + 1)..Len(s) : s[k] = c
    IN  SubSeq(s, 1, n)

\* The fractional digits of f"{x:.6f}", zero-padded on the left.
FracStr(x) ==
    LET f == (Abs(x) % Scale) * Pow10(FracDigits - Places)
        d == NatStr(f)
    IN  [i \in 1..(FracDigits - Len(d)) |-> "0"] \o d

\* f"{x:.6f}"
Fixed6(x) ==
    (IF x < 0 THEN <<"-">> ELSE <<>>) \o NatStr(Abs(x) \div Scale) \o <<".">> \o FracStr(x)

(* ------------------------- the assignment shape ------------------------ *)

NoMatch == [ok |-> FALSE, indent |-> <<>>, name |-> <<>>, value_str |-> <<>>, last |-> 0]

\* The length of what ([0-9]+) or ([0-9]*\.?[0-9]+) matches at pos, 0 for no
\* match.  Both are greedy and neither is anchored at the end of the line.
NumberLen(num, line, pos) ==
    LET d1 == RunEnd("digit", line, pos) - pos
        q  == pos + d1
        d2 == IF q <= Len(line) /\ line[q] = "."
              THEN RunEnd("digit", line, q + 1) - (q + 1)
              ELSE 0
    IN  IF num = "int" THEN d1
        ELSE IF d2 > 0 THEN d1 + 1 + d2
        ELSE d1

\* \s*=\s*(number) after a name of nlen characters that follows ind
\* characters of leading whitespace; the groups of the match.
Assignment(line, ind, nlen, num) ==
    LET p1 == RunEnd("space", line, ind + nlen + 1)
    IN  IF p1 > Len(line) \/ line[p1] # "="
        THEN NoMatch
        ELSE LET p2 == RunEnd("space", line, p1 + 1)
                 n  == NumberLen(num, line, p2)
             IN  IF n = 0
                 THEN NoMatch
                 ELSE [ok        |-> TRUE,
                       indent    |-> SubSeq(line, 1, ind),
                       name      |-> SubSeq(line, ind + 1, ind + nlen),
                       value_str |-> SubSeq(line, p2, p2 + n - 1),
                       last      |-> p2 + n - 1]

\* The eight patterns, in order.  Each is ^(\s*)(NAME)\s*=\s*(NUMBER): NAME is
\* [a-z_]* and one of the words ("suffix"), a word and [a-z_]+ ("prefix"), or
\* one of the words ("word").
PARAMETER_PATTERNS ==
    << [form |-> "suffix", num |-> "float",
        words |-> {<<"r", "a", "t", "e">>, <<"a", "l", "p", "h", "a">>, <<"b", "e", "t", "a">>, <<"g", "a", "m", "m", "a">>, <<"e", "p", "s", "i", "l", "o", "n">>, <<"l", "a", "m", "b", "d", "a">>,
                   <<"e", "t", "a">>, <<"m", "o", "m", "e", "n", "t", "u", "m">>, <<"d", "e", "c", "a", "y">>}],
       [form |-> "prefix", num |-> "int", words |-> {<<"n", "_">>}],
       [form |-> "prefix", num |-> "int", words |-> {<<"m", "a", "x", "_">>}],
       [form |-> "prefix", num |-> "float", words |-> {<<"m", "i", "n", "_">>}],
       [form |-> "word", num |-> "float",
        words |-> {<<"e", "p", "o", "c", "h">>, <<"e", "p", "o", "c", "h", "s">>, <<"i", "t", "e", "r", "a", "t", "i", "o", "n">>, <<"i", "t", "e", "r", "a", "t", "i", "o", "n", "s">>, <<"b", "a", "t", "c", "h", "_", "s", "i", "z", "e">>,
                   <<"h", "i", "d", "d", "e", "n", "_", "s", "i", "z", "e">>, <<"n", "u", "m", "_", "l", "a", "y", "e", "r", "s">>, <<"d", "r", "o", "p", "o", "u", "t">>, <<"t", "h", "r", "e", "s", "h", "o", "l", "d">>,
                   <<"t", "o", "l", "e", "r", "a", "n", "c", "e">>, <<"k">>, <<"C">>, <<"d", "e", "g", "r", "e", "e">>}],
       [form |-> "word", num |-> "float",
        words |-> {<<"t", "e", "s", "t", "_", "s", "i", "z", "e">>, <<"t", "r", "a", "i", "n", "_", "s", "i", "z", "e">>, <<"v", "a", "l", "i", "d", "a", "t", "i", "o", "n", "_", "s", "i", "z", "e">>, <<"s", "p", "l", "i", "t", "_", "r", "a", "t", "i", "o">>,
                   <<"r", "a", "t", "i", "o">>}],
       [form |-> "word", num |-> "int", words |-> {<<"r", "a", "n", "d", "o", "m", "_", "s", "t", "a", "t", "e">>, <<"s", "e", "e", "d">>}],
       [form |-> "suffix", num |-> "float",
        words |-> {<<"_", "s", "i", "z", "e">>, <<"_", "c", "o", "u", "n", "t">>, <<"_", "n", "u", "m">>, <<"_", "r", "a", "t", "e">>, <<"_", "r", "a", "t", "i", "o">>, <<"_", "f", "a", "c", "t", "o", "r">>,
                   <<"_", "w", "e", "i", "g", "h", "t">>}] >>

\* Whether NAME of a pattern matches the whole identifier, letter case folded.
NameFits(pattern, name) ==
    LET low == LowerStr(name)
    IN  \E w \in pattern.words :
            CASE pattern.form = "suffix" -> EndsWith(low, LowerStr(w))
              [] pattern.form = "prefix" -> StartsWith(low, LowerStr(w)) /\ Len(low) > Len(w)
              [] OTHER                   -> low = LowerStr(w)

\* re.match(pattern, line, re.IGNORECASE) for a pattern of PARAMETER_PATTERNS.
\* The name is followed by \s or =, so it is the whole run of [a-z_] after
\* the leading whitespace.
MatchPattern(pattern, line) ==
    LET ind  == RunEnd("space", line, 1) - 1
        nlen == RunEnd("ident", line, ind + 1) - (ind + 1)
    IN  IF nlen = 0 \/ ~NameFits(pattern, SubSeq(line, ind + 1, ind + nlen))
        THEN NoMatch
        ELSE Assignment(line, ind, nlen, pattern.num)

\* re.match(rf'^(\s*)({re.escape(param_name)})\s*=\s*([0-9]*\.?[0-9]+)', line,
\* re.IGNORECASE): the name is compared letter case folded.
MatchName(param_name, line) ==
    LET ind  == RunEnd("space", line, 1) - 1
        nlen == Len(param_name)
    IN  IF ind + nlen > Len(line)
           \/ LowerStr(SubSeq(line, ind + 1, ind + nlen)) # LowerStr(param_name)
        THEN NoMatch
        ELSE Assignment(line, ind, nlen, "float")


(* ------------------------------ Parameter ------------------------------ *)

\* Parameter(...) with no range given: __post_init__ derives it.
Parameter(name, value, line_number, original_text, param_type) ==
    [name          |-> name,
     value         |-> value,
     line_number   |-> line_number,
     original_text |-> original_text,
     param_type    |-> param_type,
     min_value     |-> IF param_type = "int" THEN Max(0, Trunc(value) - 100 * Scale) ELSE 0,
     max_value     |-> IF param_type = "int"
                       THEN Max(Trunc(value) + 100 * Scale, Trunc(value) * 3)
                       ELSE IF Abs(value) < Scale THEN Scale
                       ELSE IF Abs(value) < 10 * Scale THEN value * 5
                       ELSE value * 3,
     step          |-> IF param_type = "int" THEN Scale
                       ELSE IF Abs(value) < Scale \div 100 THEN Scale \div 1000
                       ELSE IF Abs(value) < Scale \div 10 THEN Scale \div 100
                       ELSE IF Abs(value) < Scale THEN Scale \div 20
                       ELSE Scale \div 10]

\* A test for the name being one of the words.
ContainsAny_Exact(s, words) == s \in words

ContainsAny(s, words) == \E w \in words : Contains(s, w)

apply_parameter_hints(param) ==
    LET name_lower == LowerStr(param.name)
        v          == param.value
        range(lo, hi, st) == [param EXCEPT !.min_value = lo, !.max_value = hi, !.step = st]
    IN  IF ContainsAny(name_lower, {<<"r", "a", "t", "e">>, <<"a", "l", "p", "h", "a">>, <<"e", "t", "a">>, <<"e", "p", "s", "i", "l", "o", "n">>})
        THEN range(Scale \div 10000, Scale,
                   IF v < Scale \div 100 THEN Scale \div 10000 ELSE Scale \div 1000)
        ELSE IF ContainsAny(name_lower, {<<"d", "r", "o", "p", "o", "u", "t">>, <<"r", "a", "t", "i", "o">>, <<"s", "i", "z", "e">>}) /\ v <= Scale
        THEN range(0, Scale, Scale \div 20)
        ELSE IF ContainsAny(name_lower, {<<"e", "p", "o", "c", "h">>, <<"i", "t", "e", "r", "a", "t", "i", "o", "n">>, <<"b", "a", "t", "c", "h">>})
        THEN range(Scale, Max(1000 * Scale, Trunc(v) * 5),
                   IF v < 100 * Scale THEN Scale ELSE 10 * Scale)
        ELSE IF ContainsAny(name_lower, {<<"d", "e", "p", "t", "h">>, <<"l", "a", "y", "e", "r">>, <<"l", "e", "v", "e", "l">>})
        THEN range(Scale, 50 * Scale, Scale)
        ELSE IF StartsWith(name_lower, <<"n", "_">>) \/ StartsWith(name_lower, <<"n", "u", "m", "_">>)
        THEN range(Scale, Max(100 * Scale, Trunc(v) * 5), Scale)
        ELSE IF ContainsAny(name_lower, {<<"r", "a", "n", "d", "o", "m">>, <<"s", "e", "e", "d">>})
        THEN range(0, 9999 * Scale, Scale)
        ELSE IF name_lower \in {<<"c">>, <<"l", "a", "m", "b", "d", "a">>, <<"l", "a", "m", "b", "d", "a", "_">>}
        THEN range(Scale \div 1000, 100 * Scale, Scale \div 10)
        ELSE IF ContainsAny(name_lower, {<<"m", "o", "m", "e", "n", "t", "u", "m">>, <<"d", "e", "c", "a", "y">>, <<"b", "e", "t", "a">>, <<"g", "a", "m", "m", "a">>})
        THEN range(0, Scale, Scale \div 100)
        ELSE param

(* ------------------------------- detect -------------------------------- *)

\* The scan with the seen_names test left out: every match yields a
\* Parameter.
Unseen_Unchecked(name, seen_names) == TRUE

\* Whether a pattern's match yields a Parameter: the name is not one seen.
Unseen(name, seen_names) == name \notin seen_names

\* The loop over PARAMETER_PATTERNS for one line: the first pattern that
\* matches with a name not seen yet (a match with a seen name continues with
\* the next pattern); NoMatch when none does.
RECURSIVE FirstPattern(_, _, _)
FirstPattern(k, line, seen_names) ==
    IF k > Len(PARAMETER_PATTERNS) THEN NoMatch
    ELSE LET m == MatchPattern(PARAMETER_PATTERNS[k], line)
         IN  IF m.ok /\ Unseen(m.name, seen_names) THEN m
             ELSE FirstPattern(k + 1, line, seen_names)

\* The Parameter made of a match on line line_num.
MatchedParameter(m, line_num) ==
    LET isFloat == IndexOf(".", m.value_str) > 0
    IN  apply_parameter_hints(
            Parameter(m.name,
                      IF isFloat THEN ParseFloat(m.value_str) ELSE ParseInt(m.value_str),
                      line_num,
                      m.name \o <<" ", "=", " ">> \o m.value_str,
                      IF isFloat THEN "float" ELSE "int"))

\* Lines the scan skips: blank, or a comment.
Skipped(line) == LET stripped == Strip(line) IN Len(stripped) = 0 \/ stripped[1] = "#"

RECURSIVE ScanLines(_, _, _, _)
ScanLines(lines, line_num, seen_names, parameters) ==
    IF line_num > Len(lines) THEN parameters
    ELSE IF Skipped(lines[line_num])
    THEN ScanLines(lines, line_num + 1, seen_names, parameters)
    ELSE LET m == FirstPattern(1, lines[line_num], seen_names)
         IN  IF m.ok
             THEN ScanLines(lines, line_num + 1, seen_names \cup {m.name},
                            Append(parameters, MatchedParameter(m, line_num)))
             ELSE ScanLines(lines, line_num + 1, seen_names, parameters)

detect_parameters(code) == ScanLines(Split(code), 1, {}, <<>>)

has_adjustable_parameters(code) == Len(detect_parameters(code)) > 0

(* ------------------------------- rewrite ------------------------------- *)

\* The text written for a new value: [float |-> BOOLEAN, num |-> fixed point].
FormatValue(new_value) ==
    IF new_value.float
    THEN IF new_value.num = Trunc(new_value.num)
         THEN IntStr(new_value.num)
         ELSE RStrip(RStrip(Fixed6(new_value.num), "0"), ".")
    ELSE IntStr(new_value.num)

\* The line written over a matched one.
NewLine(m, param_name, new_value) ==
    m.indent \o param_name \o <<" ", "=", " ">> \o FormatValue(new_value)

\* The index of the first line the name's pattern matches, 0 for none.
FirstMatch(lines, param_name) ==
    IF \E i \in 1..Len(lines) : MatchName(param_name, lines[i]).ok
    THEN CHOOSE i \in 1..Len(lines) :
             /\ MatchName(param_name, lines[i]).ok
             /\ \A k \in 1..(i - 1) : ~MatchName(param_name, lines[k]).ok
    ELSE 0

\* The inner loop for one entry of the mapping: the first matching line is
\* replaced, and the loop breaks.
UpdateOne(lines, param_name, new_value) ==
    LET i == FirstMatch(lines, param_name)
    IN  IF i = 0 THEN lines
        ELSE [lines EXCEPT ![i] = NewLine(MatchName(param_name, lines[i]), param_name, new_value)]

RECURSIVE UpdateAll(_, _, _)
UpdateAll(lines, parameters, k) ==
    IF k > Len(parameters) THEN lines
    ELSE UpdateAll(UpdateOne(lines, parameters[k].name, parameters[k].value), parameters, k + 1)

\* parameters is the mapping in its iteration order: a sequence of
\* [name, value] with distinct names.
update_code_with_parameters(code, parameters) == Join(UpdateAll(Split(code), parameters, 1))

(* ------------------------------ the state ------------------------------ *)

VARIABLES
    stage,            \* what the host did last
    current_code,     \* the script text the host holds
    parameters,       \* detect_parameters(current_code)
    updated_params,   \* the mapping handed to update_code_with_parameters
    new_code,         \* update_code_with_parameters(current_code, updated_params)
    new_parameters,   \* detect_parameters(new_code)
    code_again        \* update_code_with_parameters(new_code, updated_params)

paramVars ==
    <<stage, current_code, parameters, updated_params, new_code, new_parameters, code_again>>

VARIABLES
    pc,               \* where the call of execute_code is
    request,          \* its arguments: code, data, timeout
    ip,               \* the statement of the script that runs next
    elapsed,          \* the time the script has run, in ticks
    sys_stdout,       \* the stream sys.stdout names
    sys_stderr,       \* the stream sys.stderr names
    old_targets,      \* the streams the two redirects saved on entry
    fignums,          \* the numbers of the figures open in matplotlib.pyplot
    console,          \* what was written to the streams of the process
    stdout_capture,   \* what was written to the call's first buffer
    stderr_capture,   \* what was written to the call's second buffer
    exec_namespace,   \* the bindings the script sees, in insertion order
    result,
    success,
    error_msg,
    variables,
    returned,         \* the dictionary the call returned
    propagated        \* the exception the call raised to its caller

execVars ==
    <<pc, request, ip, elapsed, sys_stdout, sys_stderr, old_targets, fignums, console, stdout_capture,
      stderr_capture, exec_namespace, result, success, error_msg, variables, returned,
      propagated>>

VARIABLES
    threads           \* the calls of execute_code that run in threads of one process

concVars == <<threads>>

vars == <<paramVars, execVars, concVars>>

(* --------------------- the host and the Parameter Engine --------------- *)

\* The lines scripts are made of: assignments of tunable names with and
\* without indentation, a trailing comment, spaces around "=", integer and
\* real literals; a name in another letter case; a longer name; a comment
\* line; a blank line; the delimiter of a multi-line string.
LinePool ==
    { <<"n", "_", "a", " ", "=", " ", "3">>,
      <<"n", "_", "a", " ", "=", " ", "0">>,
      <<" ", " ", "n", "_", "a", " ", "=", " ", "1", "2", " ", " ", "#", " ", "c">>,
      <<"n", "_", "a", " ", "=", " ", ".", "5">>,
      <<"N", "_", "A", " ", "=", " ", "7">>,
      <<"n", "_", "a", "b", "=", "4">>,
      <<"r", "a", "t", "e", " ", "=", " ", "0", ".", "5">>,
      <<"k", " ", "=", " ", "2", ".", "5">>,
      <<"k", " ", "=", " ", "3">>,
      <<"#", " ", "n", "_", "a", " ", "=", " ", "9">>,
      <<"'", "'", "'">>,
      <<>> }

RECURSIVE LineSeqs(_)
LineSeqs(n) ==
    IF n = 0 THEN {<<>>}
    ELSE LET shorter == LineSeqs(n - 1)
         IN  shorter \cup {Append(ls, l) : ls \in {x \in shorter : Len(x) = n - 1}, l \in LinePool}

\* Every script of at most MaxLines lines ('' is the script of one blank line).
Scripts == {Join(ls) : ls \in LineSeqs(MaxLines) \ {<<>>}}

\* The names and the new values of a mapping: an integer, a negative
\* integer, a real, a real with an integral value.
UpdateNames == {<<"n", "_", "a">>, <<"N", "_", "A">>, <<"r", "a", "t", "e">>, <<"k">>}

NewValues ==
    { [float |-> FALSE, num |-> 7 * Scale],
      [float |-> FALSE, num |-> -1 * Scale],
      [float |-> TRUE, num |-> 5 * (Scale \div 2)],
      [float |-> TRUE, num |-> 7 * Scale] }

Entries == [name : UpdateNames, value : NewValues]

\* The entries of the mappings of two names: names that differ only in letter
\* case, integer values.
PairEntries == {e \in Entries : e.name \in {<<"n", "_", "a">>, <<"N", "_", "A">>} /\ ~e.value.float}

\* Mappings of one name, and of two names.
UpdateMappings ==
    {<<e>> : e \in Entries}
    \cup {m \in {<<e1, e2>> : e1 \in PairEntries, e2 \in PairEntries} : m[1].name # m[2].name}

\* One-line scripts that assign a literal to a name of each kind the hints
\* know, and to names they do not know.
HintNames ==
    { <<"l", "e", "a", "r", "n", "i", "n", "g", "_", "r", "a", "t", "e">>, <<"a", "l", "p", "h", "a">>, <<"b", "e", "t", "a">>, <<"d", "r", "o", "p", "o", "u", "t">>, <<"t", "e", "s", "t", "_", "s", "i", "z", "e">>, <<"b", "a", "t", "c", "h", "_", "s", "i", "z", "e">>, <<"e", "p", "o", "c", "h", "s">>,
      <<"n", "_", "i", "t", "e", "r", "a", "t", "i", "o", "n", "s">>, <<"m", "a", "x", "_", "d", "e", "p", "t", "h">>, <<"n", "u", "m", "_", "l", "a", "y", "e", "r", "s">>, <<"n", "_", "a">>, <<"n", "u", "m", "_", "f", "a", "c", "t", "o", "r">>, <<"r", "a", "n", "d", "o", "m", "_", "s", "t", "a", "t", "e">>,
      <<"s", "e", "e", "d">>, <<"C">>, <<"l", "a", "m", "b", "d", "a">>, <<"m", "o", "m", "e", "n", "t", "u", "m">>, <<"w", "e", "i", "g", "h", "t", "_", "d", "e", "c", "a", "y">>, <<"k">>, <<"t", "h", "r", "e", "s", "h", "o", "l", "d">> }

HintLiterals == { <<"0", ".", "0", "0", "5">>, <<"0", ".", "5">>, <<"1">>, <<"3">>, <<"2", "5", "0">>, <<"2", "5", "0", ".", "5">> }

HintScripts == {n \o <<" ", "=", " ">> \o v : n \in HintNames, v \in HintLiterals}

HintEdited ==
    /\ stage = "edited"
    /\ current_code \in HintScripts
    /\ parameters = <<>>
    /\ updated_params = <<>>
    /\ new_code = <<>>
    /\ new_parameters = <<>>
    /\ code_again = <<>>

ParamInit ==
    /\ stage = "edited"
    /\ current_code \in Scripts
    /\ parameters = <<>>
    /\ updated_params = <<>>
    /\ new_code = <<>>
    /\ new_parameters = <<>>
    /\ code_again = <<>>

\* The host scans the script it holds.
Detect ==
    /\ stage = "edited"
    /\ parameters' = detect_parameters(current_code)
    /\ stage' = "detected"
    /\ UNCHANGED <<current_code, updated_params, new_code, new_parameters, code_again>>
    /\ UNCHANGED <<execVars, concVars>>

\* The host rewrites the script with a mapping of new values.
Update ==
    /\ stage = "detected"
    /\ \E u \in UpdateMappings :
           /\ updated_params' = u
           /\ new_code' = update_code_with_parameters(current_code, u)
    /\ stage' = "updated"
    /\ UNCHANGED <<current_code, parameters, new_parameters, code_again>>
    /\ UNCHANGED <<execVars, concVars>>

\* The host scans the rewritten script.
Redetect ==
    /\ stage = "updated"
    /\ new_parameters' = detect_parameters(new_code)
    /\ stage' = "redetected"
    /\ UNCHANGED <<current_code, parameters, updated_params, new_code, code_again>>
    /\ UNCHANGED <<execVars, concVars>>

\* The host applies the same mapping to the rewritten script.
UpdateAgain ==
    /\ stage = "redetected"
    /\ code_again' = update_code_with_parameters(new_code, updated_params)
    /\ stage' = "updated_again"
    /\ UNCHANGED <<current_code, parameters, updated_params, new_code, new_parameters>>
    /\ UNCHANGED <<execVars, concVars>>


(* --------------------------- the Execution Engine ---------------------- *)

\* The longest script body, in statements.
MaxStatements == 3

\* The largest budget (timeout) a caller passes, in ticks.
MaxBudget == 2

\* Python's None, and the values scripts bind.
None == "None"

\* error_msg: None, or the label of the handler and the exception it caught
\* (str(e) and traceback.format_exc() name the exception).
NoError == [none |-> TRUE, label |-> "", exc |-> ""]

\* An error text that says nothing.
ErrorText_None(label, exc) == NoError

ErrorText(label, exc) == [none |-> FALSE, label |-> label, exc |-> exc]

\* What a script does, statement by statement: write to sys.stdout or
\* sys.stderr, bind a top-level name, raise, or jump back to its first statement
\* (while True).
ExecStatements ==
    { [op |-> "print", text |-> "a"],
      [op |-> "eprint", text |-> "e"],
      [op |-> "bind", name |-> "result", value |-> "1"],
      [op |-> "bind", name |-> "output", value |-> "2"],
      [op |-> "bind", name |-> "x", value |-> "3"],
      [op |-> "raise", exc |-> "ValueError"],
      [op |-> "raise", exc |-> "SystemExit"],
      [op |-> "raise", exc |-> "SyntaxError"],
      [op |-> "loop"] }

\* Statements that work on the namespace and on the figures of pyplot: bind a
\* name (a name of the script, a name with the prefix __, the name of the
\* dataset), delete a name, open a figure.
NamespaceStatements ==
    { [op |-> "bind", name |-> "result", value |-> "1"],
      [op |-> "bind", name |-> "output", value |-> "2"],
      [op |-> "bind", name |-> "x", value |-> "3"],
      [op |-> "bind", name |-> "__t", value |-> "4"],
      [op |-> "bind", name |-> "df", value |-> "5"],
      [op |-> "del", name |-> "x"],
      [op |-> "figure"] }

\* The longest script of a call that follows another call, in statements.
MaxSeqStatements == 2

\* Statements of the scripts of calls that follow one another: bind a name,
\* read it (print(x)), bind result, open a figure, raise.
SeqStatements ==
    { [op |-> "bind", name |-> "x", value |-> "3"],
      [op |-> "use", name |-> "x"],
      [op |-> "bind", name |-> "result", value |-> "1"],
      [op |-> "figure"],
      [op |-> "raise", exc |-> "ValueError"] }

\* The sequences of at most n statements of a pool.
RECURSIVE BodiesOf(_, _)
BodiesOf(pool, n) ==
    IF n = 0 THEN {<<>>}
    ELSE LET shorter == BodiesOf(pool, n - 1)
         IN  shorter \cup {Append(b, s) : b \in {x \in shorter : Len(x) = n - 1}, s \in pool}

Bodies(n) == BodiesOf(ExecStatements, n) \cup BodiesOf(NamespaceStatements, n)

\* The scripts compile() rejects (with a SyntaxError; with a MemoryError when
\* the parser runs out of stack), and the scripts it accepts.
ExecScripts ==
    {[compile_error |-> e, body |-> <<>>] : e \in {"SyntaxError", "MemoryError"}}
    \cup {[compile_error |-> "none", body |-> b] : b \in Bodies(MaxStatements)}

\* The scripts of calls that follow one another.
SeqScripts ==
    {[compile_error |-> "none", body |-> b] : b \in BodiesOf(SeqStatements, MaxSeqStatements)}

\* The exception classes that derive from Exception; SystemExit,
\* KeyboardInterrupt and GeneratorExit derive from BaseException only.
IsException(exc) == exc \notin {"SystemExit", "KeyboardInterrupt", "GeneratorExit"}

\* The libraries bound when they can be imported.
Libraries == <<"pd", "np", "plt", "sns", "sklearn", "scipy", "plotly">>

\* One namespace kept from call to call.
InitialNamespace_Kept(data) ==
    IF exec_namespace # <<>> THEN exec_namespace
    ELSE << [name |-> "__builtins__", value |-> "builtins"], [name |-> "df", value |-> data] >>
         \o [i \in 1..Len(Libraries) |-> [name |-> Libraries[i], value |-> "module"]]

InitialNamespace(data) ==
    << [name |-> "__builtins__", value |-> "builtins"], [name |-> "df", value |-> data] >>
    \o [i \in 1..Len(Libraries) |-> [name |-> Libraries[i], value |-> "module"]]

Bound(ns, name) == \E i \in 1..Len(ns) : ns[i].name = name

Lookup(ns, name) == ns[CHOOSE i \in 1..Len(ns) : ns[i].name = name].value

\* ns[name] = value: a bound name keeps its place.
Bind(ns, name, value) ==
    IF Bound(ns, name)
    THEN [i \in 1..Len(ns) |-> IF ns[i].name = name THEN [ns[i] EXCEPT !.value = value] ELSE ns[i]]
    ELSE Append(ns, [name |-> name, value |-> value])

\* The two names looked up in the other order.
ResultOf_OutputFirst(ns) ==
    IF Bound(ns, "output") THEN Lookup(ns, "output")
    ELSE IF Bound(ns, "result") THEN Lookup(ns, "result")
    ELSE None

\* The result: the value of 'result', else that of 'output', else None.
ResultOf(ns) ==
    IF Bound(ns, "result") THEN Lookup(ns, "result")
    ELSE IF Bound(ns, "output") THEN Lookup(ns, "output")
    ELSE None

builtin_names == {"pd", "np", "plt", "sns", "sklearn", "scipy", "plotly", "df", "__builtins__"}

\* k.startswith('__')
ReservedPrefix(name) == name \in {"__builtins__", "__name__", "__t"}

\* The bindings kept when only builtin_names is looked at.
VariablesOf_NamesOnly(ns) == SelectSeq(ns, LAMBDA b : b.name \notin builtin_names)

\* The bindings kept as 'variables', in the order of the namespace.
VariablesOf(ns) ==
    SelectSeq(ns, LAMBDA b : ~ReservedPrefix(b.name) /\ b.name \notin builtin_names)

\* The marker appended whatever stderr holds.
Combine_Always(stdout_output, stderr_output) ==
    stdout_output \o <<"\n[STDERR]\n">> \o stderr_output

\* stdout, then the marker and stderr when stderr is not empty.
Combine(stdout_output, stderr_output) ==
    IF Len(stderr_output) > 0
    THEN stdout_output \o <<"\n[STDERR]\n">> \o stderr_output
    ELSE stdout_output

\* plt.figure(): one more figure is open.  The figures pyplot keeps are capped
\* at what one longest script opens.
MaxFigures == MaxStatements

OpenFigure(nums) == IF Len(nums) < MaxFigures THEN Append(nums, Len(nums) + 1) ELSE nums

\* get_matplotlib_figures(): plt.get_fignums()
get_matplotlib_figures == fignums

\* display_results: execution_result.get('figures', [])
captured_figs(execution_result) ==
    IF "figures" \in DOMAIN execution_result THEN execution_result.figures ELSE <<>>

\* The streams a process has installed as sys.stdout and sys.stderr when it
\* calls execute_code: its own, or those of a host that redirected them.
PriorStreams == {<<"stdout", "stderr">>, <<"host_stdout", "host_stderr">>}

\* The buffers of the call.
CaptureBuffers == {"stdout_capture", "stderr_capture"}

\* An exit that leaves the stream as it is.
Restored_Left(old_target, current) == current

\* redirect_stdout / redirect_stderr on exit: the stream saved on entry is
\* installed again.
Restored(old_target, current) == old_target

NoResult == [success |-> FALSE, output |-> <<>>, error |-> NoError, result |-> None,
             variables |-> <<>>]

ExecIdleWith(prior_stdout, prior_stderr) ==
    /\ pc = "idle"
    /\ request = [code |-> [compile_error |-> "none", body |-> <<>>], data |-> None, timeout |-> 0]
    /\ ip = 0
    /\ elapsed = 0
    /\ sys_stdout = prior_stdout
    /\ sys_stderr = prior_stderr
    /\ old_targets = [stdout |-> None, stderr |-> None]
    /\ fignums = <<>>
    /\ console = <<>>
    /\ stdout_capture = <<>>
    /\ stderr_capture = <<>>
    /\ exec_namespace = <<>>
    /\ result = None
    /\ success = FALSE
    /\ error_msg = NoError
    /\ variables = <<>>
    /\ returned = NoResult
    /\ propagated = None

ExecIdle == ExecIdleWith("stdout", "stderr")

\* execute_code(code, data, timeout) up to the with statement: the buffers,
\* the namespace, the four locals, and the two streams redirected.
Begin(code, data, timeout) ==
    /\ request' = [code |-> code, data |-> data, timeout |-> timeout]
    /\ exec_namespace' = InitialNamespace(data)
    /\ stdout_capture' = <<>>
    /\ stderr_capture' = <<>>
    /\ result' = None
    /\ success' = FALSE
    /\ error_msg' = NoError
    /\ variables' = <<>>
    /\ old_targets' = [stdout |-> sys_stdout, stderr |-> sys_stderr]
    /\ sys_stdout' = "stdout_capture"
    /\ sys_stderr' = "stderr_capture"
    /\ elapsed' = 0
    /\ ip' = 0
    /\ pc' = "compile"
    /\ UNCHANGED <<fignums, console, returned, propagated>>
    /\ UNCHANGED <<paramVars, concVars>>

\* The host calls execute_code.
Call ==
    /\ pc = "idle"
    /\ \E code \in ExecScripts, data \in {None, "table"}, timeout \in 1..MaxBudget :
           Begin(code, data, timeout)

\* The host calls execute_code again, after a call that returned or raised.
NextCall ==
    /\ pc \in {"idle", "returned", "propagated"}
    /\ \E code \in SeqScripts, data \in {None, "table"} : Begin(code, data, MaxBudget)

\* An exception leaves the with statement, which restores the two streams,
\* and meets the handlers: SyntaxError, then Exception; any other class is
\* raised to the caller.
Handlers(exc) ==
    /\ sys_stdout' = Restored(old_targets.stdout, sys_stdout)
    /\ sys_stderr' = Restored(old_targets.stderr, sys_stderr)
    /\ IF exc = "SyntaxError"
       THEN /\ error_msg' = ErrorText("Syntax Error", exc)
            /\ pc' = "finish"
            /\ UNCHANGED propagated
       ELSE IF IsException(exc)
       THEN /\ error_msg' = ErrorText("Error", exc)
            /\ pc' = "finish"
            /\ UNCHANGED propagated
       ELSE /\ propagated' = exc
            /\ pc' = "propagated"
            /\ UNCHANGED error_msg

\* compile(code, '<user_code>', 'exec')
Compile ==
    /\ pc = "compile"
    /\ IF request.code.compile_error # "none"
       THEN /\ Handlers(request.code.compile_error)
            /\ UNCHANGED ip
       ELSE /\ pc' = "exec"
            /\ ip' = 1
            /\ UNCHANGED <<sys_stdout, sys_stderr, error_msg, propagated>>
    /\ UNCHANGED <<request, elapsed, old_targets, fignums, console, stdout_capture,
                   stderr_capture, exec_namespace, result, success, variables, returned>>
    /\ UNCHANGED <<paramVars, concVars>>

\* The texts a stream holds at most: more than a script that ends can write,
\* so only a script that never ends fills a stream.
MaxOutput == MaxStatements + 1

Put(buffer, text) == IF Len(buffer) < MaxOutput THEN Append(buffer, text) ELSE buffer

\* Text written to a stream goes where the stream's name points.
Write(stream, text) ==
    /\ stdout_capture' = IF stream = "stdout_capture" THEN Put(stdout_capture, text)
                         ELSE stdout_capture
    /\ stderr_capture' = IF stream = "stderr_capture" THEN Put(stderr_capture, text)
                         ELSE stderr_capture
    /\ console' = IF stream \notin CaptureBuffers THEN Put(console, text) ELSE console

\* The time a statement takes; nothing in execute_code reads the clock.  Past
\* the largest budget only the parity of the ticks is kept.
Tick ==
    IF elapsed <= MaxBudget THEN elapsed + 1
    ELSE IF elapsed = MaxBudget + 1 THEN MaxBudget + 2
    ELSE MaxBudget + 1

\* del ns[name]
Unbind(ns, name) == SelectSeq(ns, LAMBDA b : b.name # name)

\* exec(compiled_code, exec_namespace), one statement of the script.
ExecStatement ==
    /\ pc = "exec"
    /\ ip <= Len(request.code.body)
    /\ LET s == request.code.body[ip]
           raises == IF s.op = "raise" THEN s.exc
                     ELSE IF s.op \in {"use", "del"} /\ ~Bound(exec_namespace, s.name)
                     THEN "NameError"
                     ELSE "none"
       IN  IF raises # "none"
           THEN /\ Handlers(raises)
                /\ UNCHANGED <<ip, fignums, console, stdout_capture, stderr_capture,
                               exec_namespace>>
           ELSE /\ CASE s.op = "print"  -> Write(sys_stdout, s.text)
                       [] s.op = "eprint" -> Write(sys_stderr, s.text)
                       [] s.op = "use"    -> Write(sys_stdout, Lookup(exec_namespace, s.name))
                       [] OTHER           -> UNCHANGED <<console, stdout_capture, stderr_capture>>
                /\ exec_namespace' =
                       CASE s.op = "bind" -> Bind(exec_namespace, s.name, s.value)
                         [] s.op = "del"  -> Unbind(exec_namespace, s.name)
                         [] OTHER         -> exec_namespace
                /\ fignums' = IF s.op = "figure" THEN OpenFigure(fignums) ELSE fignums
                /\ ip' = IF s.op = "loop" THEN 1 ELSE ip + 1
                /\ UNCHANGED <<pc, sys_stdout, sys_stderr, error_msg, propagated>>
    /\ elapsed' = Tick
    /\ UNCHANGED <<request, old_targets, result, success, variables, returned>>
    /\ UNCHANGED <<paramVars, concVars>>

\* The script ran to its end: the result and the variables are read from the
\* namespace, the with statement restores the streams, success is set.
Collect ==
    /\ pc = "exec"
    /\ ip > Len(request.code.body)
    /\ result' = ResultOf(exec_namespace)
    /\ variables' = VariablesOf(exec_namespace)
    /\ sys_stdout' = Restored(old_targets.stdout, sys_stdout)
    /\ sys_stderr' = Restored(old_targets.stderr, sys_stderr)
    /\ success' = TRUE
    /\ pc' = "finish"
    /\ UNCHANGED <<request, ip, elapsed, old_targets, fignums, console, stdout_capture,
                   stderr_capture, exec_namespace, error_msg, returned, propagated>>
    /\ UNCHANGED <<paramVars, concVars>>

\* A dictionary that reads result and variables from the namespace on every
\* path, as if lines 96-107 were in a finally clause.
ResultDict_FromNamespace(ok, output, error, value, names) ==
    [success   |-> ok,
     output    |-> output,
     error     |-> error,
     result    |-> ResultOf(exec_namespace),
     variables |-> VariablesOf(exec_namespace)]

\* The dictionary execute_code returns, built from its locals.
ResultDict(ok, output, error, value, names) ==
    [success   |-> ok,
     output    |-> output,
     error     |-> error,
     result    |-> value,
     variables |-> names]

\* The outputs are combined and the dictionary is returned.
Return ==
    /\ pc = "finish"
    /\ returned' = ResultDict(success, Combine(stdout_capture, stderr_capture), error_msg,
                              result, variables)
    /\ pc' = "returned"
    /\ UNCHANGED <<request, ip, elapsed, sys_stdout, sys_stderr, old_targets, fignums, console,
                   stdout_capture, stderr_capture, exec_namespace, result, success, error_msg,
                   variables, propagated>>
    /\ UNCHANGED <<paramVars, concVars>>


(* ------------------- calls that run in two threads --------------------- *)

\* The threads of the process that call execute_code.
Threads == {"A", "B"}

\* The most a script of a thread writes.
MaxConcWrites == 2

\* The two buffers of each thread's call.
CaptureOf ==
    [A |-> [stdout |-> "stdout_capture_A", stderr |-> "stderr_capture_A"],
     B |-> [stdout |-> "stdout_capture_B", stderr |-> "stderr_capture_B"]]

\* The scripts of a thread: they write its own text to sys.stdout and
\* sys.stderr.
ConcScripts(t) ==
    BodiesOf({[op |-> "print", text |-> t], [op |-> "eprint", text |-> t]}, MaxConcWrites)

ThreadIdle ==
    [pc |-> "idle", code |-> <<>>, ip |-> 0,
     old_targets |-> [stdout |-> None, stderr |-> None],
     stdout_capture |-> <<>>, stderr_capture |-> <<>>, output |-> <<>>]

ConcIdle == threads = [t \in Threads |-> ThreadIdle]

\* What the process-wide variables sys.stdout and sys.stderr and the buffers
\* of the threads become when text is written to a stream.
WriteTo(ths, stream, text) ==
    [u \in Threads |->
        [ths[u] EXCEPT
            !.stdout_capture = IF stream = CaptureOf[u].stdout THEN Append(@, text) ELSE @,
            !.stderr_capture = IF stream = CaptureOf[u].stderr THEN Append(@, text) ELSE @]]

IsCapture(stream) ==
    \E u \in Threads : stream \in {CaptureOf[u].stdout, CaptureOf[u].stderr}

\* What the calls in threads leave alone.
ConcFrame ==
    /\ UNCHANGED <<pc, request, ip, elapsed, old_targets, fignums, stdout_capture, stderr_capture,
                   exec_namespace, result, success, error_msg, variables, returned, propagated>>
    /\ UNCHANGED paramVars

\* A thread calls execute_code: its two buffers are created.
ConcBegin(t) ==
    /\ threads[t].pc = "idle"
    /\ \E code \in ConcScripts(t) :
           threads' = [threads EXCEPT ![t] = [ThreadIdle EXCEPT !.pc = "enter_stdout",
                                                                !.code = code]]
    /\ UNCHANGED <<sys_stdout, sys_stderr, console>>
    /\ ConcFrame

\* redirect_stdout(stdout_capture).__enter__(): sys.stdout is saved and set.
EnterStdout(t) ==
    /\ threads[t].pc = "enter_stdout"
    /\ threads' = [threads EXCEPT ![t].old_targets.stdout = sys_stdout,
                                  ![t].pc = "enter_stderr"]
    /\ sys_stdout' = CaptureOf[t].stdout
    /\ UNCHANGED <<sys_stderr, console>>
    /\ ConcFrame

\* redirect_stderr(stderr_capture).__enter__(): sys.stderr is saved and set.
EnterStderr(t) ==
    /\ threads[t].pc = "enter_stderr"
    /\ threads' = [threads EXCEPT ![t].old_targets.stderr = sys_stderr,
                                  ![t].pc = "exec", ![t].ip = 1]
    /\ sys_stderr' = CaptureOf[t].stderr
    /\ UNCHANGED <<sys_stdout, console>>
    /\ ConcFrame

\* One statement of the thread's script: the text goes to the stream that
\* sys.stdout (sys.stderr) names when the statement runs.
ConcWrite(t) ==
    /\ threads[t].pc = "exec"
    /\ threads[t].ip <= Len(threads[t].code)
    /\ LET s == threads[t].code[threads[t].ip]
           stream == IF s.op = "print" THEN sys_stdout ELSE sys_stderr
       IN  /\ threads' = [WriteTo(threads, stream, s.text) EXCEPT ![t].ip = @ + 1]
           /\ console' = IF IsCapture(stream) THEN console ELSE Put(console, s.text)
    /\ UNCHANGED <<sys_stdout, sys_stderr>>
    /\ ConcFrame

\* The script ended; redirect_stderr(...).__exit__(): the saved stream is set.
ExitStderr(t) ==
    /\ threads[t].pc = "exec"
    /\ threads[t].ip > Len(threads[t].code)
    /\ sys_stderr' = Restored(threads[t].old_targets.stderr, sys_stderr)
    /\ threads' = [threads EXCEPT ![t].pc = "exit_stdout"]
    /\ UNCHANGED <<sys_stdout, console>>
    /\ ConcFrame

\* redirect_stdout(...).__exit__(): the saved stream is set.
ExitStdout(t) ==
    /\ threads[t].pc = "exit_stdout"
    /\ sys_stdout' = Restored(threads[t].old_targets.stdout, sys_stdout)
    /\ threads' = [threads EXCEPT ![t].pc = "finish"]
    /\ UNCHANGED <<sys_stderr, console>>
    /\ ConcFrame

\* The thread's call combines what its two buffers hold and returns.
ConcReturn(t) ==
    /\ threads[t].pc = "finish"
    /\ threads' = [threads EXCEPT
                      ![t].output = Combine(threads[t].stdout_capture, threads[t].stderr_capture),
                      ![t].pc = "returned"]
    /\ UNCHANGED <<sys_stdout, sys_stderr, console>>
    /\ ConcFrame

ConcNext ==
    \E t \in Threads :
        \/ ConcBegin(t)
        \/ EnterStdout(t)
        \/ EnterStderr(t)
        \/ ConcWrite(t)
        \/ ExitStderr(t)
        \/ ExitStdout(t)
        \/ ConcReturn(t)

(* --------------------------- specifications ---------------------------- *)

ParamIdle ==
    /\ stage = "idle"
    /\ current_code = <<>>
    /\ parameters = <<>>
    /\ updated_params = <<>>
    /\ new_code = <<>>
    /\ new_parameters = <<>>
    /\ code_again = <<>>

\* The Parameter Engine: detect, rewrite, detect again, rewrite again.
Init == ParamInit /\ ExecIdle /\ ConcIdle

Next == Detect \/ Update \/ Redetect \/ UpdateAgain

Spec == Init /\ [][Next]_vars

\* The Execution Engine: one call of execute_code, by a process that has its
\* own or a host's streams installed.
ExecInit ==
    /\ ParamIdle
    /\ ConcIdle
    /\ \E prior \in PriorStreams : ExecIdleWith(prior[1], prior[2])

ExecNext == Call \/ Compile \/ ExecStatement \/ Collect \/ Return

ExecSpec == ExecInit /\ [][ExecNext]_vars

\* The interpreter keeps running the script, and the call keeps going, while
\* there is a step to take.
FairExecSpec == ExecSpec /\ WF_vars(ExecNext)

\* The Execution Engine called again and again.
SeqNext == NextCall \/ Compile \/ ExecStatement \/ Collect \/ Return

SeqSpec == ExecInit /\ [][SeqNext]_vars

\* Two threads of one process call the Execution Engine.
ConcInit == ParamIdle /\ ExecIdle /\ ConcIdle

ConcSpec == ConcInit /\ [][ConcNext]_vars

\* The Parameter Engine scanning one-line scripts of every kind of name.
HintInit == HintEdited /\ ExecIdle /\ ConcIdle

HintNext == Detect

HintSpec == HintInit /\ [][HintNext]_vars

(* ----------------------------- properties ------------------------------ *)

\* The lines of the script before and after the first rewrite.
OldLines == Split(current_code)

NewLines == Split(new_code)

\* The identifier a line starts with, after its leading whitespace.
IdentifierOf(line) ==
    LET ind == RunEnd("space", line, 1) - 1
    IN  SubSeq(line, ind + 1, RunEnd("ident", line, ind + 1) - 1)

\* The line is an assignment of a number to exactly this identifier.
AssignsExactly(line, name) == MatchName(name, line).ok /\ IdentifierOf(line) = name

\* The line is one the scan reads as an assignment to this name.
Detectable(line, name) ==
    /\ ~Skipped(line)
    /\ \E k \in 1..Len(PARAMETER_PATTERNS) :
           LET m == MatchPattern(PARAMETER_PATTERNS[k], line) IN m.ok /\ m.name = name

\* The first line of lines that detect reads as an assignment of name, 0
\* for none.
FirstDetectable(name, lines) ==
    IF \E i \in 1..Len(lines) : Detectable(lines[i], name)
    THEN CHOOSE i \in 1..Len(lines) :
             Detectable(lines[i], name) /\ \A k \in 1..(i - 1) : ~Detectable(lines[k], name)
    ELSE 0

\* The first line of lines that assigns exactly the identifier name, 0 for
\* none.
FirstAssigning(name, lines) ==
    IF \E i \in 1..Len(lines) : AssignsExactly(lines[i], name)
    THEN CHOOSE i \in 1..Len(lines) :
             AssignsExactly(lines[i], name) /\ \A k \in 1..(i - 1) : ~AssignsExactly(lines[k], name)
    ELSE 0

\* The script failed: it did not compile, or the statement it stopped at
\* raised.
ScriptFailed ==
    \/ request.code.compile_error # "none"
    \/ /\ ip \in 1..Len(request.code.body)
       /\ \/ request.code.body[ip].op = "raise"
          \/ /\ request.code.body[ip].op \in {"del", "use"}
             /\ \A i \in 1..Len(exec_namespace) :
                    exec_namespace[i].name # request.code.body[ip].name

\* C1: execute_code returns a result for every script and never raises to its
\* caller: every failure of the script (it does not compile, or it raises
\* anything, an exit or an interrupt included) ends in a returned result with
\* success false and an error text.
C1_NeverRaisesToCaller ==
    /\ pc # "propagated"
    /\ (pc = "returned" /\ ScriptFailed) => (~returned.success /\ ~returned.error.none)

\* C2: rewriting is idempotent: rewriting the rewritten script with the same
\* mapping gives the rewritten script.
C2_RewriteIdempotent == stage = "updated_again" => code_again = new_code

\* C3: every Parameter detect returns has min_value <= value <= max_value and
\* step > 0.
C3_ValueWithinRange ==
    \A i \in 1..Len(parameters) :
        LET p == parameters[i]
        IN  p.min_value <= p.value /\ p.value <= p.max_value /\ p.step > 0

\* C4: round trip: after rewriting a name detect reports with a new value,
\* detect on the rewritten script reports that name with that value.
C4_RoundTrip ==
    (/\ stage = "redetected"
     /\ Len(updated_params) = 1
     /\ \E i \in 1..Len(parameters) : parameters[i].name = updated_params[1].name)
    => \E j \in 1..Len(new_parameters) :
           /\ new_parameters[j].name = updated_params[1].name
           /\ new_parameters[j].value = updated_params[1].value.num

\* One scan's result against the script it scanned: no two Parameters share
\* a name, and each carries the number and the value of the first line that
\* assigns its name.
FirstWins(ps, lines) ==
    /\ \A i, j \in 1..Len(ps) : ps[i].name = ps[j].name => i = j
    /\ \A i \in 1..Len(ps) :
           LET p     == ps[i]
               first == FirstDetectable(p.name, lines)
               m     == FirstPattern(1, lines[first], {})
           IN  /\ first > 0
               /\ p.line_number = first
               /\ p.original_text = p.name \o <<" ", "=", " ">> \o m.value_str
               /\ p.value = IF p.param_type = "float" THEN ParseFloat(m.value_str)
                            ELSE ParseInt(m.value_str)

\* C5: a scan yields at most one Parameter per name, with the line number and
\* the value of the first line that assigns the name; later assignments of the
\* name yield none.
C5_FirstDefinitionWins ==
    /\ stage = "detected" => FirstWins(parameters, OldLines)
    /\ stage = "redetected" => FirstWins(new_parameters, NewLines)

\* A name is assigned on two lines with different values, and the scan
\* reported it.
C5_Witness ==
    /\ stage = "detected"
    /\ \E i \in 1..Len(parameters), l \in 1..Len(OldLines) :
           /\ l > parameters[i].line_number
           /\ Detectable(OldLines[l], parameters[i].name)
           /\ FirstPattern(1, OldLines[l], {}).value_str
                  # FirstPattern(1, OldLines[parameters[i].line_number], {}).value_str

\* The entry of the mapping whose name a line is the first to assign, 0 for
\* none.
EntryOf(lines, i) ==
    IF \E k \in 1..Len(updated_params) :
           FirstAssigning(updated_params[k].name, lines) = i
    THEN CHOOSE k \in 1..Len(updated_params) :
             FirstAssigning(updated_params[k].name, lines) = i
    ELSE 0

\* C6: the rewrite changes, for each name of the mapping, the first line that
\* assigns the name, to its leading whitespace and name = value; every other
\* line is left as it was, and the lines keep their number and order.
C6_OnlyFirstLineChanged ==
    stage = "updated" =>
        /\ Len(NewLines) = Len(OldLines)
        /\ \A i \in 1..Len(OldLines) :
               LET k == EntryOf(OldLines, i)
               IN  IF k = 0 THEN NewLines[i] = OldLines[i]
                   ELSE NewLines[i] =
                            SubSeq(OldLines[i], 1, RunEnd("space", OldLines[i], 1) - 1)
                            \o updated_params[k].name \o <<" ", "=", " ">>
                            \o FormatValue(updated_params[k].value)

\* C7: the rewrite matches a name by the exact identifier: a line it changes
\* assigns exactly that name, and assigns the same identifier afterwards.
C7_ExactIdentifierOnly ==
    (stage = "updated" /\ Len(updated_params) = 1) =>
        \A i \in 1..Len(OldLines) :
            NewLines[i] # OldLines[i] =>
                /\ IdentifierOf(OldLines[i]) = updated_params[1].name
                /\ IdentifierOf(NewLines[i]) = IdentifierOf(OldLines[i])

\* The line is the delimiter of a multi-line string.
IsDelimiter(line) == Strip(line) = <<"'", "'", "'">>

\* The line lies inside a multi-line string: an odd number of delimiters
\* come before it.
InsideString(lines, i) ==
    /\ ~IsDelimiter(lines[i])
    /\ Cardinality({k \in 1..(i - 1) : IsDelimiter(lines[k])}) % 2 = 1

\* What follows the numeric literal on a line that assigns a number.
AfterLiteral(line) ==
    LET m == MatchName(IdentifierOf(line), line)
    IN  SubSeq(line, m.last + 1, Len(line))

\* C8: the rewrite alters no comment and no string: a line inside a
\* multi-line string is left as it was, and a line it changes keeps what
\* followed the numeric literal (a trailing comment).
C8_CommentsAndStringsKept ==
    stage = "updated" =>
        \A i \in 1..Len(OldLines) :
            /\ InsideString(OldLines, i) => NewLines[i] = OldLines[i]
            /\ NewLines[i] # OldLines[i] => EndsWith(NewLines[i], AfterLiteral(OldLines[i]))

\* C9: detect and rewrite agree on the occurrence: rewriting the name of a
\* Parameter detect reported writes the line the Parameter numbers and changes
\* no other line.
C9_SameOccurrence ==
    (stage = "updated" /\ Len(updated_params) = 1) =>
        \A j \in 1..Len(parameters) :
            parameters[j].name = updated_params[1].name =>
                /\ EndsWith(NewLines[parameters[j].line_number],
                            parameters[j].name \o <<" ", "=", " ">> \o FormatValue(updated_params[1].value))
                /\ \A i \in 1..Len(OldLines) :
                       i # parameters[j].line_number => NewLines[i] = OldLines[i]

\* The script never ends: it compiles and reaches a jump back to its first
\* statement before any raise.
NeverFinishes(code) ==
    /\ code.compile_error = "none"
    /\ \E l \in 1..Len(code.body) :
           /\ code.body[l].op = "loop"
           /\ \A k \in 1..(l - 1) : code.body[k].op # "raise"

\* C10: a call whose script never ends is bounded by its budget: it returns
\* to the caller, with success false and an "execution timed out" error.
C10_BoundedByBudget ==
    (pc = "exec" /\ NeverFinishes(request.code))
        ~> (pc = "returned" /\ ~returned.success /\ returned.error.label = "Timeout")

(* ------------------ properties of the Execution Engine ----------------- *)

\* The script and what it has done so far: the statements that ran to their
\* end (the statement at ip is the one that runs next, or the one that raised).
Body == request.code.body

Completed == IF ip = 0 THEN 0 ELSE ip - 1

\* The names a script has bound and not deleted after n statements that
\* raised nothing.
RECURSIVE NamesAfter(_, _)
NamesAfter(body, n) ==
    IF n = 0 THEN {}
    ELSE LET before == NamesAfter(body, n - 1)
             s == body[n]
         IN  CASE s.op = "bind" -> before \cup {s.name}
               [] s.op = "del"  -> before \ {s.name}
               [] OTHER         -> before

\* Statement k of the script raises: a raise, or a name read or deleted that
\* the script has not bound.
StatementRaises(body, k) ==
    \/ body[k].op = "raise"
    \/ body[k].op \in {"del", "use"} /\ body[k].name \notin NamesAfter(body, k - 1)

\* The script compiles, ends, and raises nothing.
RunsClean(code) ==
    /\ code.compile_error = "none"
    /\ \A k \in 1..Len(code.body) : code.body[k].op # "loop" /\ ~StatementRaises(code.body, k)

\* The names execute_code binds before the script runs.
PreBound == {"__builtins__", "df", "pd", "np", "plt", "sns", "sklearn", "scipy", "plotly"}

\* C11: every call runs its script in a fresh namespace: the names the script
\* sees are the pre-bound ones and those it bound itself, whatever the scripts
\* of earlier calls bound; a script that reads a name it did not bind gets a
\* NameError; and the variables of a result are bindings of that call's script.
C11_FreshNamespace ==
    /\ pc \in {"compile", "exec", "finish", "returned"} =>
           \A i \in 1..Len(exec_namespace) :
               exec_namespace[i].name \in PreBound \cup NamesAfter(Body, Completed)
    /\ (pc \in {"finish", "returned"} /\ ip \in 1..Len(Body) /\ Body[ip].op = "use"
            /\ Body[ip].name \notin NamesAfter(Body, ip - 1)) =>
           error_msg = ErrorText("Error", "NameError")
    /\ pc = "returned" =>
           \A i \in 1..Len(returned.variables) :
               returned.variables[i].name \in NamesAfter(Body, Completed)

\* A later call has read x, which only the script of the call before it (whose
\* result holds x) had bound, and failed.
C11_Witness ==
    /\ pc = "finish"
    /\ error_msg = ErrorText("Error", "NameError")
    /\ \E i \in 1..Len(returned.variables) : returned.variables[i].name = "x"

\* The texts the first n statements of a script write with the operation op.
Texts(body, n, op) ==
    LET written == SelectSeq(SubSeq(body, 1, n), LAMBDA s : s.op = op)
    IN  [i \in 1..Len(written) |-> written[i].text]

HasLoop(body) == \E k \in 1..Len(body) : body[k].op = "loop"

\* C12: output capture is scoped.  While the script is compiled and run,
\* sys.stdout and sys.stderr are the call's two buffers, what the script
\* writes is in them and nothing reaches the streams installed before;
\* on every way out of the call (the script ended, did not compile, raised,
\* raised to the caller) the streams installed before the call are installed
\* again.
C12_CaptureScoped ==
    /\ [](/\ pc \in {"compile", "exec"} =>
                sys_stdout = "stdout_capture" /\ sys_stderr = "stderr_capture"
          /\ console = <<>>
          /\ (pc # "idle" /\ ~HasLoop(Body)) =>
                /\ stdout_capture = Texts(Body, Completed, "print")
                /\ stderr_capture = Texts(Body, Completed, "eprint"))
    /\ \A prior \in PriorStreams :
           (pc = "idle" /\ sys_stdout = prior[1] /\ sys_stderr = prior[2]) =>
               [](pc \in {"finish", "returned", "propagated"} =>
                      sys_stdout = prior[1] /\ sys_stderr = prior[2])

\* A call by a host that had installed its own streams: the script wrote to
\* both streams and then raised; the host's streams are installed again.
C12_Witness ==
    /\ pc = "finish"
    /\ ~error_msg.none
    /\ Len(stdout_capture) > 0
    /\ Len(stderr_capture) > 0
    /\ sys_stdout = "host_stdout"
    /\ sys_stderr = "host_stderr"

\* C13: two calls that run concurrently share no mutable state: the output of
\* each result is the text its own script wrote, and when both calls have
\* returned sys.stdout and sys.stderr are the streams installed before the
\* first call began.
C13_NoSharedState ==
    /\ \A t \in Threads :
           threads[t].pc = "returned" =>
               threads[t].output = Combine(Texts(threads[t].code, Len(threads[t].code), "print"),
                                           Texts(threads[t].code, Len(threads[t].code), "eprint"))
    /\ (\A t \in Threads : threads[t].pc = "returned") =>
           sys_stdout = "stdout" /\ sys_stderr = "stderr"

\* C14: the error text labels the phase that failed: the syntax label exactly
\* when compile() failed, the runtime label exactly when the script raised
\* while it ran, whatever it raised; a script that raises ValueError gives
\* success false and an error with the runtime label that names ValueError.
C14_LabelsPhase ==
    (pc = "returned" /\ ~returned.success) =>
        /\ returned.error.label = "Syntax Error" <=> request.code.compile_error # "none"
        /\ returned.error.label = "Error" <=> request.code.compile_error = "none"
        /\ (ip \in 1..Len(Body) /\ Body[ip] = [op |-> "raise", exc |-> "ValueError"]) =>
               returned.error = ErrorText("Error", "ValueError")

\* C15: in every result success is true exactly when error is None, and a
\* script that compiles and raises nothing gives success true and error None.
C15_SuccessIffNoError ==
    pc = "returned" =>
        /\ returned.success <=> returned.error.none
        /\ RunsClean(request.code) => (returned.success /\ returned.error.none)
        /\ ~RunsClean(request.code) => (~returned.success /\ ~returned.error.none)

\* A script that wrote, bound a name and raised nothing has returned.
C15_Witness ==
    /\ pc = "returned"
    /\ returned.success
    /\ Len(returned.output) > 0
    /\ Len(returned.variables) > 0

\* The value the last binding of name in the script gave it.
FinalValue(body, name) ==
    body[CHOOSE k \in 1..Len(body) :
             /\ body[k].op = "bind" /\ body[k].name = name
             /\ \A j \in (k + 1)..Len(body) : ~(body[j].op = "bind" /\ body[j].name = name)].value

Birth(body, name) ==
    CHOOSE k \in 1..Len(body) :
        /\ body[k].op = "bind" /\ body[k].name = name
        /\ \A j \in (k + 1)..Len(body) : ~(body[j].op = "del" /\ body[j].name = name)
        /\ \A j \in 1..(k - 1) :
               (body[j].op = "bind" /\ body[j].name = name) =>
                   \E d \in (j + 1)..(k - 1) : body[d].op = "del" /\ body[d].name = name

\* The bindings a script that raised nothing leaves, in the order it created
\* them, without the names with the prefix __, the dataset name and the
\* library names.
KeptBindings(body) ==
    LET alive   == NamesAfter(body, Len(body))
        kept    == {n \in alive : n \notin {"__t", "__name__"} /\ n \notin PreBound}
        indexed == [k \in 1..Len(body) |-> [k |-> k, s |-> body[k]]]
        births  == SelectSeq(indexed,
                             LAMBDA e : e.s.op = "bind" /\ e.s.name \in kept
                                        /\ e.k = Birth(body, e.s.name))
    IN  [i \in 1..Len(births) |->
            [name |-> births[i].s.name, value |-> FinalValue(body, births[i].s.name)]]

C18_FiguresInResult ==
    pc = "returned" => captured_figs(returned) = get_matplotlib_figures

\* C19: output is the captured standard output, followed, only when something
\* was written to standard error, by the [STDERR] marker and the captured
\* standard error.
C19_OutputMerged ==
    pc = "returned" =>
        /\ Len(stderr_capture) = 0 => returned.output = stdout_capture
        /\ Len(stderr_capture) > 0 =>
               returned.output = stdout_capture \o <<"\n[STDERR]\n">> \o stderr_capture
        /\ stdout_capture = Texts(Body, Completed, "print")
        /\ stderr_capture = Texts(Body, Completed, "eprint")

\* The script wrote to both streams.
C19_Witness ==
    /\ pc = "returned"
    /\ Len(stdout_capture) > 0
    /\ Len(stderr_capture) > 0
    /\ Len(returned.output) = Len(stdout_capture) + Len(stderr_capture) + 1

(* ------------------------ properties of the hints ---------------------- *)

\* The semantic categories in the order of the specification, each with its
\* name test; "none" when no test is satisfied.
CategoryOf(name, value) ==
    LET n == LowerStr(name)
    IN  IF \E w \in {<<"r", "a", "t", "e">>, <<"a", "l", "p", "h", "a">>, <<"e", "t", "a">>, <<"e", "p", "s", "i", "l", "o", "n">>} : Contains(n, w) THEN "rate"
        ELSE IF (\E w \in {<<"d", "r", "o", "p", "o", "u", "t">>, <<"r", "a", "t", "i", "o">>, <<"s", "i", "z", "e">>} : Contains(n, w)) /\ value <= Scale
        THEN "ratio"
        ELSE IF \E w \in {<<"e", "p", "o", "c", "h">>, <<"i", "t", "e", "r", "a", "t", "i", "o", "n">>, <<"b", "a", "t", "c", "h">>} : Contains(n, w) THEN "epoch"
        ELSE IF \E w \in {<<"d", "e", "p", "t", "h">>, <<"l", "a", "y", "e", "r">>, <<"l", "e", "v", "e", "l">>} : Contains(n, w) THEN "depth"
        ELSE IF StartsWith(n, <<"n", "_">>) \/ StartsWith(n, <<"n", "u", "m", "_">>) THEN "count"
        ELSE IF \E w \in {<<"r", "a", "n", "d", "o", "m">>, <<"s", "e", "e", "d">>} : Contains(n, w) THEN "seed"
        ELSE IF n \in {<<"c">>, <<"l", "a", "m", "b", "d", "a">>, <<"l", "a", "m", "b", "d", "a", "_">>} THEN "regularization"
        ELSE IF \E w \in {<<"m", "o", "m", "e", "n", "t", "u", "m">>, <<"d", "e", "c", "a", "y">>, <<"b", "e", "t", "a">>, <<"g", "a", "m", "m", "a">>} : Contains(n, w)
        THEN "momentum"
        ELSE "none"

\* The range and the step of the first category whose name test the name of p
\* satisfies, with v the value the bounds of the epoch and count categories
\* and of the default are computed from.
CategoryRanges(p, v) ==
    LET c == CategoryOf(p.name, p.value)
    IN  /\ c = "rate" => p.min_value = Scale \div 10000 /\ p.max_value = Scale
        /\ c = "ratio" => p.min_value = 0 /\ p.max_value = Scale /\ p.step = Scale \div 20
        /\ c = "epoch" => p.min_value = Scale /\ p.max_value = Max(1000 * Scale, 5 * v)
        /\ c = "depth" => p.min_value = Scale /\ p.max_value = 50 * Scale /\ p.step = Scale
        /\ c = "count" =>
               p.min_value = Scale /\ p.max_value = Max(100 * Scale, 5 * v) /\ p.step = Scale
        /\ c = "seed" => p.min_value = 0 /\ p.max_value = 9999 * Scale /\ p.step = Scale
        /\ c = "regularization" =>
               /\ p.min_value = Scale \div 1000
               /\ p.max_value = 100 * Scale
               /\ p.step = Scale \div 10
        /\ c = "momentum" => p.min_value = 0 /\ p.max_value = Scale /\ p.step = Scale \div 100
        /\ (c = "none" /\ p.param_type = "int") =>
               /\ p.min_value = Max(0, v - 100 * Scale)
               /\ p.max_value = Max(v + 100 * Scale, 3 * v)
               /\ p.step = Scale

BoundBeforeFailure(name) == name \in NamesAfter(Body, Completed)

\* C21: when the script fails (it does not compile, or a statement raises an
\* exception the handlers catch), the returned result has result None and no
\* variables, whatever the script bound before it failed, and its output is
\* every text the script wrote to standard output and to standard error before
\* the failure.
C21_FailureKeepsOutputOnly ==
    (pc = "returned" /\ ~RunsClean(request.code)) =>
        /\ returned.result = None
        /\ returned.variables = <<>>
        /\ returned.output = Combine(Texts(Body, Completed, "print"),
                                     Texts(Body, Completed, "eprint"))

\* A script that bound result, wrote a text and then raised has returned.
C21_Witness ==
    /\ pc = "returned"
    /\ ~returned.success
    /\ request.code.compile_error = "none"
    /\ BoundBeforeFailure("result")
    /\ Len(returned.output) > 0
    /\ returned.result = None

(* --- kinds across a rewrite --- *)

\* The value is of the kind of the Parameter: a real for 'float', an integer
\* for 'int'.
SameKind(value, p) == value.float <=> (p.param_type = "float")

\* C22: rewrite followed by detect preserves the kind of a parameter: after
\* the name of a detected Parameter p is rewritten with a value of p's kind,
\* detect reports a Parameter of that name with p's param_type.
C22_KindPreserved ==
    (stage = "redetected" /\ Len(updated_params) = 1) =>
        \A j \in 1..Len(parameters) :
            (/\ parameters[j].name = updated_params[1].name
             /\ SameKind(updated_params[1].value, parameters[j])) =>
                \E i \in 1..Len(new_parameters) :
                    /\ new_parameters[i].name = parameters[j].name
                    /\ new_parameters[i].param_type = parameters[j].param_type
====
